---- MODULE Spec2Model ----
(***************************************************************************)
(* Model of the affirmation-generator server actions                       *)
(* (src/src/actions/index.ts) over the two Astro DB tables declared in     *)
(* the table configuration (src/unnamed/part_000).                         *)
(*                                                                         *)
(* A JavaScript object is a function from the keys it holds to their       *)
(* values: a key that is absent is `undefined`.  A table is the set of     *)
(* its rows; a row is a function over all the columns of the table, with   *)
(* Null in a column that holds SQL NULL.                                   *)
(*                                                                         *)
(* The table configuration declares Affirmations.collectionId as a         *)
(* reference to AffirmationCollections.id.  Whether the store rejects a    *)
(* write that breaks the reference is a property of the database the       *)
(* project is deployed on, not of this code: fkEnforced is chosen in the   *)
(* initial state and never changes.                                        *)
(*                                                                         *)
(* Spec and FaultSpec serve one request at a time, each handler from       *)
(* start to end, and one request per tick of the clock.  ConcSpec runs     *)
(* handlers together, one awaited store call per step.                     *)
(***************************************************************************)
EXTENDS Integers, Sequences, FiniteSets, TLC

\* Number of requests served in one behaviour of Spec.
MaxCalls == 3

\* Users the identity provider can put in context.locals.user.
Users == {"u1", "u2"}
\* A context whose locals carry no user.
NoUser == "<anonymous>"
Callers == Users \cup {NoUser}

\* SQL NULL / JavaScript null in a text column.
Null == "<null>"

\* crypto.randomUUID(): the n-th identifier drawn for each table.
CollectionUUID == <<"c1", "c2", "c3", "c4", "c5", "c6">>
AffirmationUUID == <<"a1", "a2", "a3", "a4", "a5", "a6">>

VARIABLES
    collections,   \* table AffirmationCollections
    affirmations,  \* table Affirmations
    fkEnforced,    \* whether the store enforces the declared reference
    clock,         \* the clock read by new Date()
    req,           \* the request served last: [op, user, input, fault]
    res,           \* its outcome: [code, data] (and total, for a list)
    pre,           \* the tables as they were when it arrived: [colls, affs]
    pc,            \* ConcSpec: each in-flight request's position
    loc            \* ConcSpec: each in-flight request's local variables

vars == <<collections, affirmations, fkEnforced, clock, req, res, pre, pc, loc>>

----------------------------------------------------------------------------
\* JavaScript objects

\* The empty object {} (also stands for an input that is undefined: every
\* optional chain input?.k is undefined on both).
EmptyObj == [k \in {} |-> Null]

\* { ...a, ...b }
Spread(a, b) ==
    [k \in (DOMAIN a) \cup (DOMAIN b) |-> IF k \in DOMAIN b THEN b[k] ELSE a[k]]

\* The keys of `keys` that obj defines: ...(obj.k !== undefined ? {k: obj.k} : {})
Defined(obj, keys) == [k \in (DOMAIN obj) \cap keys |-> obj[k]]

Has(obj, k) == k \in DOMAIN obj

\* if (obj.k) on a text value: defined, not null and not the empty string.
Truthy(obj, k) == Has(obj, k) /\ obj[k] # Null /\ obj[k] # ""

\* if (obj.k) on a boolean value: defined and true.
TruthyFlag(obj, k) == Has(obj, k) /\ obj[k] = TRUE

\* obj.k as stored by an insert: undefined becomes NULL.
Column(obj, k) == IF Has(obj, k) THEN obj[k] ELSE Null

\* obj.k ?? false
OrFalse(obj, k) == IF Has(obj, k) THEN obj[k] ELSE FALSE

----------------------------------------------------------------------------
\* Input schemas.  defineAction parses the input with the schema and calls
\* the handler with the parsed value: a rejected input never reaches it.

CollectionPatchKeys == {"name", "description", "icon", "isDefault"}
AffirmationPatchKeys ==
    {"text", "collectionId", "category", "language", "tags", "useTimeOfDay",
     "isFavorite"}
TimesOfDay == {"morning", "evening", "any"}

createCollectionSchema(in) ==
    Has(in, "name") /\ in.name # ""

updateCollectionSchema(in) ==
    /\ Has(in, "id")
    /\ Has(in, "name") => in.name # ""
    /\ (DOMAIN in) \cap CollectionPatchKeys # {}

idSchema(in) == Has(in, "id")

createAffirmationSchema(in) ==
    /\ Has(in, "text") /\ in.text # ""
    /\ Has(in, "collectionId") => in.collectionId # Null
    /\ Has(in, "useTimeOfDay") => in.useTimeOfDay \in TimesOfDay

updateAffirmationSchema(in) ==
    /\ Has(in, "id")
    /\ Has(in, "text") => in.text # ""
    /\ Has(in, "useTimeOfDay") => in.useTimeOfDay \in TimesOfDay
    /\ (DOMAIN in) \cap AffirmationPatchKeys # {}

listAffirmationsSchema(in) ==
    Has(in, "collectionId") => in.collectionId # Null

\* Whether defineAction's schema for op accepts the input.
SchemaAccepts(op, in) ==
    CASE op = "createCollection" -> createCollectionSchema(in)
      [] op = "updateCollection" -> updateCollectionSchema(in)
      [] op = "deleteCollection" -> idSchema(in)
      [] op = "createAffirmation" -> createAffirmationSchema(in)
      [] op = "updateAffirmation" -> updateAffirmationSchema(in)
      [] op = "deleteAffirmation" -> idSchema(in)
      [] op = "listAffirmations" -> listAffirmationsSchema(in)
      [] OTHER -> TRUE

----------------------------------------------------------------------------
\* The persistence store

\* Mutant of SelectCollection: the owner is left out of the filter.
SelectCollectionAnyOwner(colls, id, uid) ==
    {c \in colls : c.id = id}

\* select().from(AffirmationCollections).where(and(eq(id), eq(userId)))
SelectCollection(colls, id, uid) ==
    {c \in colls : c.id = id /\ c.userId = uid}

\* select().from(Affirmations).where(and(eq(id), eq(userId)))
SelectAffirmation(affs, id, uid) ==
    {a \in affs : a.id = id /\ a.userId = uid}

\* The reference Affirmations.collectionId -> AffirmationCollections.id,
\* when the store enforces it.
ReferenceOk(colls, cid) ==
    ~fkEnforced \/ cid = Null \/ \E c \in colls : c.id = cid

\* A store call: [ok |-> whether it succeeded, rows |-> the table after it].
Done(rows) == [ok |-> TRUE, rows |-> rows]
Rejected(rows) == [ok |-> FALSE, rows |-> rows]

\* insert(AffirmationCollections).values(row)
InsertCollection(colls, row) ==
    IF \E c \in colls : c.id = row.id THEN Rejected(colls)
    ELSE Done(colls \cup {row})

\* insert(Affirmations).values(row)
InsertAffirmation(colls, affs, row) ==
    IF (\E a \in affs : a.id = row.id) \/ ~ReferenceOk(colls, row.collectionId)
    THEN Rejected(affs)
    ELSE Done(affs \cup {row})

\* update(AffirmationCollections).set(updates).where(and(eq(id), eq(userId)))
UpdateCollectionRows(colls, id, uid, updates) ==
    Done({IF c.id = id /\ c.userId = uid THEN Spread(c, updates) ELSE c
          : c \in colls})

\* Mutant of UpdateAffirmationRows: the id is left out of the filter.
UpdateAffirmationRowsOfUser(colls, affs, id, uid, updates) ==
    Done({IF a.userId = uid THEN Spread(a, updates) ELSE a : a \in affs})

\* update(Affirmations).set(updates).where(and(eq(id), eq(userId)))
UpdateAffirmationRows(colls, affs, id, uid, updates) ==
    IF /\ SelectAffirmation(affs, id, uid) # {}
       /\ Has(updates, "collectionId")
       /\ ~ReferenceOk(colls, updates.collectionId)
    THEN Rejected(affs)
    ELSE Done({IF a.id = id /\ a.userId = uid THEN Spread(a, updates) ELSE a
               : a \in affs})

\* Mutant of DeleteAffirmationsOf: the filter compares the row's id.
DeleteAffirmationsById(affs, cid, uid) ==
    Done({a \in affs : ~(a.id = cid /\ a.userId = uid)})

\* delete(Affirmations).where(and(eq(collectionId), eq(userId)))
DeleteAffirmationsOf(affs, cid, uid) ==
    Done({a \in affs : ~(a.collectionId = cid /\ a.userId = uid)})

\* delete(Affirmations).where(and(eq(id), eq(userId)))
DeleteAffirmationRow(affs, id, uid) ==
    Done({a \in affs : ~(a.id = id /\ a.userId = uid)})

\* delete(AffirmationCollections).where(and(eq(id), eq(userId)))
DeleteCollectionRow(colls, affs, id, uid) ==
    IF /\ fkEnforced
       /\ SelectCollection(colls, id, uid) # {}
       /\ \E a \in affs : a.collectionId = id
    THEN Rejected(colls)
    ELSE Done({c \in colls : ~(c.id = id /\ c.userId = uid)})

----------------------------------------------------------------------------
\* The handlers, one request at a time

CollectionColumns ==
    {"id", "userId", "name", "description", "icon", "isDefault", "createdAt",
     "updatedAt"}
AffirmationColumns ==
    {"id", "collectionId", "userId", "text", "category", "language", "tags",
     "useTimeOfDay", "isFavorite", "isSystem", "createdAt", "updatedAt"}

\* The row an insert stores for a JavaScript object: NULL where it is undefined.
Row(obj, columns) == [k \in columns |-> Column(obj, k)]

\* requireUser(context): TRUE when locals.user is set (otherwise it throws).
requireUser(u) == u # NoUser

\* What a handler did: the code returned or thrown, the tables it leaves
\* and the records it returns.
Out(code, colls, affs, data) ==
    [code |-> code, colls |-> colls, affs |-> affs, data |-> data]
Throw(code) == Out(code, collections, affirmations, {})
\* { success: true, data: { items, total: items.length } }
OutList(items) ==
    [code |-> "OK", colls |-> collections, affs |-> affirmations,
     data |-> items, total |-> Cardinality(items)]

\* A store call named k throws when the fault injected into the request is k.
\* fault = "none": the store answers every call.
Faults == {"none", "select", "check", "cascade", "write"}

createCollectionRun(u, in, f) ==
    IF ~createCollectionSchema(in) THEN Throw("BAD_REQUEST")
    ELSE IF ~requireUser(u) THEN Throw("UNAUTHORIZED")
    ELSE
      LET collection ==
              Spread([id |-> CollectionUUID[clock], userId |-> u,
                      name |-> in.name, isDefault |-> OrFalse(in, "isDefault"),
                      createdAt |-> clock, updatedAt |-> clock],
                     Defined(in, {"description", "icon"}))
          ins == InsertCollection(collections, Row(collection, CollectionColumns))
      IN  IF f = "write" \/ ~ins.ok THEN Throw("STORE_ERROR")
          ELSE Out("OK", ins.rows, affirmations, {collection})

\* Mutant of updateCollectionRun: the row is looked up before requireUser.
updateCollectionGuardLate(u, in, f) ==
    IF ~updateCollectionSchema(in) THEN Throw("BAD_REQUEST")
    ELSE IF f = "select" THEN Throw("STORE_ERROR")
    ELSE
      LET found == SelectCollection(collections, in.id, u)
          updates == Spread(Defined(in, CollectionPatchKeys), [updatedAt |-> clock])
          upd == UpdateCollectionRows(collections, in.id, u, updates)
      IN  IF found = {} THEN Throw("NOT_FOUND")
          ELSE IF ~requireUser(u) THEN Throw("UNAUTHORIZED")
          ELSE IF f = "write" \/ ~upd.ok THEN Throw("STORE_ERROR")
          ELSE Out("OK", upd.rows, affirmations,
                   {Spread(existing, updates) : existing \in found})

updateCollectionRun(u, in, f) ==
    IF ~updateCollectionSchema(in) THEN Throw("BAD_REQUEST")
    ELSE IF ~requireUser(u) THEN Throw("UNAUTHORIZED")
    ELSE IF f = "select" THEN Throw("STORE_ERROR")
    ELSE
      LET found == SelectCollection(collections, in.id, u)
          updates == Spread(Defined(in, CollectionPatchKeys), [updatedAt |-> clock])
          upd == UpdateCollectionRows(collections, in.id, u, updates)
      IN  IF found = {} THEN Throw("NOT_FOUND")
          ELSE IF f = "write" \/ ~upd.ok THEN Throw("STORE_ERROR")
          ELSE Out("OK", upd.rows, affirmations,
                   {Spread(existing, updates) : existing \in found})

deleteCollectionRun(u, in, f) ==
    IF ~idSchema(in) THEN Throw("BAD_REQUEST")
    ELSE IF ~requireUser(u) THEN Throw("UNAUTHORIZED")
    ELSE IF f = "select" THEN Throw("STORE_ERROR")
    ELSE
      LET found == SelectCollection(collections, in.id, u)
          cascade == DeleteAffirmationsOf(affirmations, in.id, u)
          del == DeleteCollectionRow(collections, cascade.rows, in.id, u)
      IN  IF found = {} THEN Throw("NOT_FOUND")
          ELSE IF f = "cascade" THEN Throw("STORE_ERROR")
          ELSE IF f = "write" \/ ~del.ok
               THEN Out("STORE_ERROR", collections, cascade.rows, {})
          ELSE Out("OK", del.rows, cascade.rows, {})

listCollectionsRun(u, in, f) ==
    IF ~requireUser(u) THEN Throw("UNAUTHORIZED")
    ELSE IF f = "select" THEN Throw("STORE_ERROR")
    ELSE OutList({c \in collections : c.userId = u})

createAffirmationRun(u, in, f) ==
    IF ~createAffirmationSchema(in) THEN Throw("BAD_REQUEST")
    ELSE IF ~requireUser(u) THEN Throw("UNAUTHORIZED")
    ELSE IF Truthy(in, "collectionId") /\ f = "check" THEN Throw("STORE_ERROR")
    ELSE IF /\ Truthy(in, "collectionId")
            /\ SelectCollection(collections, in.collectionId, u) = {}
         THEN Throw("NOT_FOUND")
    ELSE
      LET affirmation ==
              Spread([id |-> AffirmationUUID[clock],
                      collectionId |-> Column(in, "collectionId"),
                      userId |-> u, text |-> in.text,
                      isFavorite |-> OrFalse(in, "isFavorite"),
                      isSystem |-> FALSE,
                      createdAt |-> clock, updatedAt |-> clock],
                     Defined(in, {"category", "language", "tags", "useTimeOfDay"}))
          ins == InsertAffirmation(collections, affirmations,
                                   Row(affirmation, AffirmationColumns))
      IN  IF f = "write" \/ ~ins.ok THEN Throw("STORE_ERROR")
          ELSE Out("OK", collections, ins.rows, {affirmation})

\* Mutant of updateAffirmationRun: the row is written before the
\* collection is checked.
updateAffirmationWriteFirst(u, in, f) ==
    IF ~updateAffirmationSchema(in) THEN Throw("BAD_REQUEST")
    ELSE IF ~requireUser(u) THEN Throw("UNAUTHORIZED")
    ELSE IF f = "select" THEN Throw("STORE_ERROR")
    ELSE
      LET found == SelectAffirmation(affirmations, in.id, u)
          updates == Spread(Defined(in, AffirmationPatchKeys), [updatedAt |-> clock])
          upd == UpdateAffirmationRows(collections, affirmations, in.id, u, updates)
      IN  IF found = {} THEN Throw("NOT_FOUND")
          ELSE IF f = "write" \/ ~upd.ok THEN Throw("STORE_ERROR")
          ELSE IF Truthy(in, "collectionId") /\ f = "check"
               THEN Out("STORE_ERROR", collections, upd.rows, {})
          ELSE IF /\ Truthy(in, "collectionId")
                  /\ SelectCollection(collections, in.collectionId, u) = {}
               THEN Out("NOT_FOUND", collections, upd.rows, {})
          ELSE Out("OK", collections, upd.rows,
                   {Spread(existing, updates) : existing \in found})

updateAffirmationRun(u, in, f) ==
    IF ~updateAffirmationSchema(in) THEN Throw("BAD_REQUEST")
    ELSE IF ~requireUser(u) THEN Throw("UNAUTHORIZED")
    ELSE IF f = "select" THEN Throw("STORE_ERROR")
    ELSE
      LET found == SelectAffirmation(affirmations, in.id, u)
          updates == Spread(Defined(in, AffirmationPatchKeys), [updatedAt |-> clock])
          upd == UpdateAffirmationRows(collections, affirmations, in.id, u, updates)
      IN  IF found = {} THEN Throw("NOT_FOUND")
          ELSE IF Truthy(in, "collectionId") /\ f = "check" THEN Throw("STORE_ERROR")
          ELSE IF /\ Truthy(in, "collectionId")
                  /\ SelectCollection(collections, in.collectionId, u) = {}
               THEN Throw("NOT_FOUND")
          ELSE IF f = "write" \/ ~upd.ok THEN Throw("STORE_ERROR")
          ELSE Out("OK", collections, upd.rows,
                   {Spread(existing, updates) : existing \in found})

deleteAffirmationRun(u, in, f) ==
    IF ~idSchema(in) THEN Throw("BAD_REQUEST")
    ELSE IF ~requireUser(u) THEN Throw("UNAUTHORIZED")
    ELSE IF f = "select" THEN Throw("STORE_ERROR")
    ELSE
      LET found == SelectAffirmation(affirmations, in.id, u)
          del == DeleteAffirmationRow(affirmations, in.id, u)
      IN  IF found = {} THEN Throw("NOT_FOUND")
          ELSE IF f = "write" \/ ~del.ok THEN Throw("STORE_ERROR")
          ELSE Out("OK", collections, del.rows, {})

\* The rows and(...filters) keeps.
ListFilter(affs, u, in) ==
    {a \in affs :
        /\ a.userId = u
        /\ Truthy(in, "collectionId") => a.collectionId = in.collectionId
        /\ TruthyFlag(in, "favoritesOnly") => a.isFavorite = TRUE}

listAffirmationsRun(u, in, f) ==
    IF ~listAffirmationsSchema(in) THEN Throw("BAD_REQUEST")
    ELSE IF ~requireUser(u) THEN Throw("UNAUTHORIZED")
    ELSE IF f = "select" THEN Throw("STORE_ERROR")
    ELSE OutList(ListFilter(affirmations, u, in))

----------------------------------------------------------------------------
\* The inputs the requests are drawn from

\* Ids a caller can name: none ("", which z.string() accepts) and every id
\* in the table, whoever owns it.
CollectionIdArgs == {""} \cup {c.id : c \in collections}
AffirmationIdArgs == {""} \cup {a.id : a \in affirmations}
\* "c0" is a well-formed id that was never issued.
CollectionRefArgs == {"", "c0"} \cup {c.id : c \in collections}

createCollectionInputs ==
    { [name |-> "Morning"],
      [name |-> "Work", description |-> "daily", icon |-> "sun", isDefault |-> TRUE],
      [name |-> ""] }

CollectionPatches ==
    { EmptyObj,
      [name |-> "Calm"],
      [description |-> "nightly", icon |-> "moon", isDefault |-> TRUE] }

updateCollectionInputs ==
    {Spread([id |-> id], p) : id \in CollectionIdArgs, p \in CollectionPatches}

deleteCollectionInputs == {[id |-> id] : id \in CollectionIdArgs}

createAffirmationInputs ==
    {Spread(t, c) :
        t \in { [text |-> "I am capable"],
                [text |-> "I am calm", category |-> "health", language |-> "en",
                 tags |-> "a,b", useTimeOfDay |-> "morning", isFavorite |-> TRUE] },
        c \in {EmptyObj} \cup {[collectionId |-> id] : id \in CollectionRefArgs}}
    \cup { [text |-> ""] }

AffirmationPatches ==
    { EmptyObj,
      [text |-> "I am strong", isFavorite |-> TRUE],
      [category |-> "work", language |-> "ta", tags |-> "c",
       useTimeOfDay |-> "evening"],
      [collectionId |-> Null] }
    \cup {[collectionId |-> id] : id \in CollectionIdArgs}

updateAffirmationInputs ==
    {Spread([id |-> id], p) : id \in AffirmationIdArgs, p \in AffirmationPatches}

deleteAffirmationInputs == {[id |-> id] : id \in AffirmationIdArgs}

listAffirmationsInputs ==
    {Spread(c, v) :
        c \in {EmptyObj} \cup {[collectionId |-> id] : id \in CollectionIdArgs},
        v \in {EmptyObj, [favoritesOnly |-> FALSE], [favoritesOnly |-> TRUE]}}

----------------------------------------------------------------------------
\* One request served from start to end

\* The server takes another request.
Accepting == clock <= MaxCalls

Serve(op, u, in, f, out) ==
    /\ collections' = out.colls
    /\ affirmations' = out.affs
    /\ req' = [op |-> op, user |-> u, input |-> in, fault |-> f]
    /\ res' = [k \in (DOMAIN out) \ {"colls", "affs"} |-> out[k]]
    /\ pre' = [colls |-> collections, affs |-> affirmations]
    /\ clock' = clock + 1
    /\ UNCHANGED <<fkEnforced, pc, loc>>

createCollection(u, F) ==
    /\ Accepting
    /\ \E in \in createCollectionInputs, f \in {"none", "write"} \cap F :
          Serve("createCollection", u, in, f, createCollectionRun(u, in, f))

updateCollection(u, F) ==
    /\ Accepting
    /\ \E in \in updateCollectionInputs, f \in {"none", "select", "write"} \cap F :
          Serve("updateCollection", u, in, f, updateCollectionRun(u, in, f))

deleteCollection(u, F) ==
    /\ Accepting
    /\ \E in \in deleteCollectionInputs, f \in {"none", "select", "cascade", "write"} \cap F :
          Serve("deleteCollection", u, in, f, deleteCollectionRun(u, in, f))

listCollections(u, F) ==
    /\ Accepting
    /\ \E f \in {"none", "select"} \cap F :
          Serve("listCollections", u, EmptyObj, f, listCollectionsRun(u, EmptyObj, f))

createAffirmation(u, F) ==
    /\ Accepting
    /\ \E in \in createAffirmationInputs, f \in {"none", "check", "write"} \cap F :
          Serve("createAffirmation", u, in, f, createAffirmationRun(u, in, f))

updateAffirmation(u, F) ==
    /\ Accepting
    /\ \E in \in updateAffirmationInputs, f \in {"none", "select", "check", "write"} \cap F :
          Serve("updateAffirmation", u, in, f, updateAffirmationRun(u, in, f))

deleteAffirmation(u, F) ==
    /\ Accepting
    /\ \E in \in deleteAffirmationInputs, f \in {"none", "select", "write"} \cap F :
          Serve("deleteAffirmation", u, in, f, deleteAffirmationRun(u, in, f))

listAffirmations(u, F) ==
    /\ Accepting
    /\ \E in \in listAffirmationsInputs, f \in {"none", "select"} \cap F :
          Serve("listAffirmations", u, in, f, listAffirmationsRun(u, in, f))

NoRequest == [op |-> "none", user |-> NoUser, input |-> EmptyObj, fault |-> "none"]

Init ==
    /\ collections = {}
    /\ affirmations = {}
    /\ fkEnforced \in BOOLEAN
    /\ clock = 1
    /\ req = NoRequest
    /\ res = [code |-> "none", data |-> {}]
    /\ pre = [colls |-> {}, affs |-> {}]
    /\ pc = <<>>
    /\ loc = <<>>

Next ==
    \E u \in Callers :
        \/ createCollection(u, {"none"})
        \/ updateCollection(u, {"none"})
        \/ deleteCollection(u, {"none"})
        \/ listCollections(u, {"none"})
        \/ createAffirmation(u, {"none"})
        \/ updateAffirmation(u, {"none"})
        \/ deleteAffirmation(u, {"none"})
        \/ listAffirmations(u, {"none"})

Spec == Init /\ [][Next]_vars

\* The requests of one signed-in user, and of callers that are not signed
\* in, against a store whose calls can fail.
FaultNext ==
    \E u \in {"u1", NoUser} :
        \/ createCollection(u, Faults)
        \/ updateCollection(u, Faults)
        \/ deleteCollection(u, Faults)
        \/ listCollections(u, Faults)
        \/ createAffirmation(u, Faults)
        \/ updateAffirmation(u, Faults)
        \/ deleteAffirmation(u, Faults)
        \/ listAffirmations(u, Faults)

FaultSpec == Init /\ [][FaultNext]_vars

----------------------------------------------------------------------------
\* Requests in flight together: every awaited store call is one atomic step
\* of the store, followed by the handler's code up to its next await.

\* Number of requests in flight together.
NumSlots == 2
Slots == 1..NumSlots

\* The store the concurrent requests start from: u1 has created the
\* collection c1 and then one affirmation, in c1 or in no collection.
InitialCollection ==
    [id |-> "c1", userId |-> "u1", name |-> "Morning", description |-> Null,
     icon |-> Null, isDefault |-> FALSE, createdAt |-> 1, updatedAt |-> 1]
InitialAffirmation(cid) ==
    [id |-> "a2", collectionId |-> cid, userId |-> "u1", text |-> "I am capable",
     category |-> Null, language |-> Null, tags |-> Null, useTimeOfDay |-> Null,
     isFavorite |-> FALSE, isSystem |-> FALSE, createdAt |-> 2, updatedAt |-> 2]

\* The requests u1 sends.
ConcRequests ==
    {[op |-> "updateCollection", input |-> in] :
        in \in { [id |-> "c1", name |-> "Calm"],
                 [id |-> "c1", name |-> "Focus", isDefault |-> TRUE] }}
    \cup
    {[op |-> "updateAffirmation", input |-> in] :
        in \in { [id |-> "a2", text |-> "I am strong"],
                 [id |-> "a2", text |-> "I am bold", isFavorite |-> TRUE],
                 [id |-> "a2", collectionId |-> "c1"] }}
    \cup
    { [op |-> "deleteCollection", input |-> [id |-> "c1"]],
      [op |-> "createAffirmation",
       input |-> [text |-> "I am calm", collectionId |-> "c1"]] }

\* A handler's local variables: the request, the row(s) its select found,
\* the updates (or the new row) it built, when it read and when it wrote
\* (0: not yet), the number of write calls it made, and what it returned.
\* The clock advances with every write that reaches the store.
Idle ==
    [op |-> "none", user |-> NoUser, input |-> EmptyObj, found |-> {},
     updates |-> EmptyObj, readAt |-> 0, wroteAt |-> 0, writes |-> 0,
     code |-> "none", data |-> {}]

\* One step of slot s: its position and locals change.
Step(s, next, l) ==
    /\ pc' = [pc EXCEPT ![s] = next]
    /\ loc' = [loc EXCEPT ![s] = l]
    /\ UNCHANGED <<fkEnforced, req, res, pre>>

Return(l, code, data) == [l EXCEPT !.code = code, !.data = data]

\* The new row createAffirmation builds before its insert.
NewAffirmation(s, u, in) ==
    Spread([id |-> AffirmationUUID[2 + s],
            collectionId |-> Column(in, "collectionId"),
            userId |-> u, text |-> in.text,
            isFavorite |-> OrFalse(in, "isFavorite"), isSystem |-> FALSE,
            createdAt |-> clock, updatedAt |-> clock],
           Defined(in, {"category", "language", "tags", "useTimeOfDay"}))

\* A request arrives: the schema, requireUser and the code up to the first
\* store call.
Start(s) ==
    /\ pc[s] = "idle"
    /\ \E r \in ConcRequests, u \in {"u1"} :
        LET l == [Idle EXCEPT !.op = r.op, !.user = u, !.input = r.input] IN
        IF ~SchemaAccepts(r.op, r.input)
        THEN Step(s, "done", Return(l, "BAD_REQUEST", {}))
        ELSE IF ~requireUser(u)
        THEN Step(s, "done", Return(l, "UNAUTHORIZED", {}))
        ELSE IF r.op = "createAffirmation"
        THEN IF Truthy(r.input, "collectionId")
             THEN Step(s, "check", l)
             ELSE Step(s, "write",
                       [l EXCEPT !.updates = NewAffirmation(s, u, r.input)])
        ELSE Step(s, "select", l)
    /\ UNCHANGED <<collections, affirmations, clock>>

At(s, op, where) == pc[s] = where /\ loc[s].op = op

updateCollectionSelect(s) ==
    /\ At(s, "updateCollection", "select")
    /\ LET l == loc[s]
           found == SelectCollection(collections, l.input.id, l.user)
           updates == Spread(Defined(l.input, CollectionPatchKeys),
                             [updatedAt |-> clock])
       IN  IF found = {} THEN Step(s, "done", Return(l, "NOT_FOUND", {}))
           ELSE Step(s, "write", [l EXCEPT !.found = found, !.updates = updates,
                                           !.readAt = clock])
    /\ UNCHANGED <<collections, affirmations, clock>>

updateCollectionWrite(s) ==
    /\ At(s, "updateCollection", "write")
    /\ LET l == loc[s]
           upd == UpdateCollectionRows(collections, l.input.id, l.user, l.updates)
       IN  /\ collections' = upd.rows
           /\ Step(s, "done",
                   Return([l EXCEPT !.wroteAt = clock, !.writes = @ + 1], "OK",
                          {Spread(existing, l.updates) : existing \in l.found}))
    /\ clock' = clock + 1
    /\ UNCHANGED affirmations

deleteCollectionSelect(s) ==
    /\ At(s, "deleteCollection", "select")
    /\ LET l == loc[s]
           found == SelectCollection(collections, l.input.id, l.user)
       IN  IF found = {} THEN Step(s, "done", Return(l, "NOT_FOUND", {}))
           ELSE Step(s, "cascade", [l EXCEPT !.found = found, !.readAt = clock])
    /\ UNCHANGED <<collections, affirmations, clock>>

deleteCollectionCascade(s) ==
    /\ At(s, "deleteCollection", "cascade")
    /\ affirmations' =
          DeleteAffirmationsOf(affirmations, loc[s].input.id, loc[s].user).rows
    /\ Step(s, "write", loc[s])
    /\ clock' = clock + 1
    /\ UNCHANGED collections

deleteCollectionWrite(s) ==
    /\ At(s, "deleteCollection", "write")
    /\ LET l == loc[s]
           del == DeleteCollectionRow(collections, affirmations, l.input.id, l.user)
       IN  /\ collections' = del.rows
           /\ Step(s, "done",
                   Return([l EXCEPT !.wroteAt = clock, !.writes = @ + 1],
                          IF del.ok THEN "OK" ELSE "STORE_ERROR", {}))
    /\ clock' = clock + 1
    /\ UNCHANGED affirmations

createAffirmationCheck(s) ==
    /\ At(s, "createAffirmation", "check")
    /\ LET l == loc[s]
           found == SelectCollection(collections, l.input.collectionId, l.user)
       IN  IF found = {} THEN Step(s, "done", Return(l, "NOT_FOUND", {}))
           ELSE Step(s, "write",
                     [l EXCEPT !.updates = NewAffirmation(s, l.user, l.input),
                               !.readAt = clock])
    /\ UNCHANGED <<collections, affirmations, clock>>

createAffirmationInsert(s) ==
    /\ At(s, "createAffirmation", "write")
    /\ LET l == loc[s]
           ins == InsertAffirmation(collections, affirmations,
                                    Row(l.updates, AffirmationColumns))
       IN  /\ affirmations' = ins.rows
           /\ Step(s, "done",
                   IF ins.ok
                   THEN Return([l EXCEPT !.wroteAt = clock, !.writes = @ + 1],
                               "OK", {l.updates})
                   ELSE Return([l EXCEPT !.writes = @ + 1], "STORE_ERROR", {}))
    /\ clock' = clock + 1
    /\ UNCHANGED collections

\* The updates updateAffirmation builds before its write.
AffirmationUpdates(in) ==
    Spread(Defined(in, AffirmationPatchKeys), [updatedAt |-> clock])

updateAffirmationSelect(s) ==
    /\ At(s, "updateAffirmation", "select")
    /\ LET l == loc[s]
           found == SelectAffirmation(affirmations, l.input.id, l.user)
           m == [l EXCEPT !.found = found, !.readAt = clock]
       IN  IF found = {} THEN Step(s, "done", Return(l, "NOT_FOUND", {}))
           ELSE IF Truthy(l.input, "collectionId") THEN Step(s, "check", m)
           ELSE Step(s, "write", [m EXCEPT !.updates = AffirmationUpdates(l.input)])
    /\ UNCHANGED <<collections, affirmations, clock>>

updateAffirmationCheck(s) ==
    /\ At(s, "updateAffirmation", "check")
    /\ LET l == loc[s]
           found == SelectCollection(collections, l.input.collectionId, l.user)
       IN  IF found = {} THEN Step(s, "done", Return(l, "NOT_FOUND", {}))
           ELSE Step(s, "write", [l EXCEPT !.updates = AffirmationUpdates(l.input)])
    /\ UNCHANGED <<collections, affirmations, clock>>

\* Mutant of updateAffirmationWrite: the whole merged record is written.
updateAffirmationWriteMerged(s) ==
    /\ At(s, "updateAffirmation", "write")
    /\ LET l == loc[s]
           merged == CHOOSE m \in {Spread(existing, l.updates) : existing \in l.found} : TRUE
           upd == UpdateAffirmationRows(collections, affirmations, l.input.id,
                                        l.user, merged)
       IN  /\ affirmations' = upd.rows
           /\ Step(s, "done",
                   IF upd.ok
                   THEN Return([l EXCEPT !.wroteAt = clock, !.writes = @ + 1],
                               "OK", {merged})
                   ELSE Return([l EXCEPT !.writes = @ + 1], "STORE_ERROR", {}))
    /\ clock' = clock + 1
    /\ UNCHANGED collections

updateAffirmationWrite(s) ==
    /\ At(s, "updateAffirmation", "write")
    /\ LET l == loc[s]
           upd == UpdateAffirmationRows(collections, affirmations, l.input.id,
                                        l.user, l.updates)
       IN  /\ affirmations' = upd.rows
           /\ Step(s, "done",
                   IF upd.ok
                   THEN Return([l EXCEPT !.wroteAt = clock, !.writes = @ + 1],
                               "OK",
                               {Spread(existing, l.updates) : existing \in l.found})
                   ELSE Return([l EXCEPT !.writes = @ + 1], "STORE_ERROR", {}))
    /\ clock' = clock + 1
    /\ UNCHANGED collections

ConcInit ==
    /\ collections = {InitialCollection}
    /\ affirmations \in {{InitialAffirmation(cid)} : cid \in {Null, "c1"}}
    /\ fkEnforced \in BOOLEAN
    /\ clock = 3
    /\ req = NoRequest
    /\ res = [code |-> "none", data |-> {}]
    /\ pre = [colls |-> collections, affs |-> affirmations]
    /\ pc = [s \in Slots |-> "idle"]
    /\ loc = [s \in Slots |-> Idle]

ConcNext ==
    \E s \in Slots :
        \/ Start(s)
        \/ updateCollectionSelect(s)
        \/ updateCollectionWrite(s)
        \/ deleteCollectionSelect(s)
        \/ deleteCollectionCascade(s)
        \/ deleteCollectionWrite(s)
        \/ createAffirmationCheck(s)
        \/ createAffirmationInsert(s)
        \/ updateAffirmationSelect(s)
        \/ updateAffirmationCheck(s)
        \/ updateAffirmationWrite(s)

ConcSpec == ConcInit /\ [][ConcNext]_vars

----------------------------------------------------------------------------
\* Properties of the handlers served one at a time

Served == req.op # "none"
TablesUnchanged == collections = pre.colls /\ affirmations = pre.affs
OwnedBy(rows, u) == {r \in rows : r.userId = u}
WithId(rows, id) == {r \in rows : r.id = id}

\* C1. Ownership isolation: a request of caller B neither returns, changes
\* nor removes a row owned by another user A, and an update or delete of B
\* that names a row of A fails with NOT_FOUND and leaves both tables as
\* they were.
OwnershipIsolation ==
    \A a \in Users :
        (Served /\ req.user # a) =>
            /\ OwnedBy(collections, a) = OwnedBy(pre.colls, a)
            /\ OwnedBy(affirmations, a) = OwnedBy(pre.affs, a)
            /\ OwnedBy(res.data, a) = {}
            /\ ( /\ req.user \in Users
                 /\ SchemaAccepts(req.op, req.input)
                 /\ \/ /\ req.op \in {"updateCollection", "deleteCollection"}
                       /\ OwnedBy(WithId(pre.colls, req.input.id), a) # {}
                    \/ /\ req.op \in {"updateAffirmation", "deleteAffirmation"}
                       /\ OwnedBy(WithId(pre.affs, req.input.id), a) # {} )
               => (res.code = "NOT_FOUND" /\ TablesUnchanged)

\* u2 named an affirmation of u1 in an update and got NOT_FOUND.
OwnershipIsolationWitness ==
    /\ req.op = "updateAffirmation" /\ req.user = "u2"
    /\ res.code = "NOT_FOUND"
    /\ OwnedBy(WithId(pre.affs, req.input.id), "u1") # {}

CascadeDelete ==
    (req.op = "deleteCollection" /\ req.user \in Users /\ idSchema(req.input)) =>
        LET C == req.input.id
            listed == listAffirmationsRun(req.user, [collectionId |-> C], "none")
            colls == listCollectionsRun(req.user, EmptyObj, "none")
        IN  /\ res.code = "OK" =>
                /\ listed.code = "OK" /\ listed.data = {} /\ listed.total = 0
                /\ colls.code = "OK" /\ WithId(colls.data, C) = {}
            /\ ( /\ SelectCollection(pre.colls, C, req.user) # {}
                 /\ SelectCollection(collections, C, req.user) = {} )
               => {a \in affirmations :
                      a.collectionId = C /\ a.userId = req.user} = {}

\* A deleteCollection succeeded on a collection that held affirmations.
CascadeDeleteWitness ==
    /\ req.op = "deleteCollection" /\ res.code = "OK"
    /\ \E a \in pre.affs :
          a.collectionId = req.input.id /\ a.userId = req.user

\* C5. createAffirmation: a collectionId that is supplied must resolve to a
\* collection of the caller, otherwise the call fails with NOT_FOUND and
\* inserts nothing; without a collectionId the call succeeds and the new
\* row is stored with collectionId null.
CreateAffirmationChecksCollection ==
    ( /\ req.op = "createAffirmation" /\ req.user \in Users
      /\ createAffirmationSchema(req.input) ) =>
        IF Has(req.input, "collectionId")
        THEN SelectCollection(pre.colls, req.input.collectionId, req.user) = {}
                => (res.code = "NOT_FOUND" /\ TablesUnchanged)
        ELSE /\ res.code = "OK"
             /\ \E a \in affirmations :
                   /\ affirmations = pre.affs \cup {a}
                   /\ a \notin pre.affs
                   /\ a.collectionId = Null

\* The keys of a row an update may change.
PatchKeys(op) ==
    IF op = "updateCollection" THEN CollectionPatchKeys ELSE AffirmationPatchKeys

\* C6. A successful updateCollection or updateAffirmation changes, in the
\* stored row, only the fields its input supplies and updatedAt; every
\* other field of the row, every other row and the other table are as
\* before, and the record returned is the stored row.
PartialUpdateFrame ==
    (req.op \in {"updateCollection", "updateAffirmation"} /\ res.code = "OK") =>
        LET before == IF req.op = "updateCollection" THEN pre.colls ELSE pre.affs
            after == IF req.op = "updateCollection" THEN collections ELSE affirmations
            supplied == (DOMAIN req.input) \cap PatchKeys(req.op)
        IN  /\ IF req.op = "updateCollection"
               THEN affirmations = pre.affs ELSE collections = pre.colls
            /\ \E old \in before, new \in after :
                  /\ old.id = req.input.id /\ new.id = req.input.id
                  /\ after \ {new} = before \ {old}
                  /\ \A k \in DOMAIN old :
                        IF k \in supplied THEN new[k] = req.input[k]
                        ELSE k # "updatedAt" => new[k] = old[k]
                  /\ res.data = {new}

\* An updateAffirmation that left the category out succeeded on a row that
\* had one, while the table held another row.
PartialUpdateFrameWitness ==
    /\ req.op = "updateAffirmation" /\ res.code = "OK"
    /\ Cardinality(affirmations) >= 2
    /\ ~Has(req.input, "category")
    /\ \E old \in pre.affs : old.id = req.input.id /\ old.category # Null

\* C7. listAffirmations returns exactly the caller's rows, restricted to
\* the given collectionId whenever one is given and to isFavorite = true
\* when favoritesOnly is true; total is the number of items.
ListAffirmationsFilters ==
    (req.op = "listAffirmations" /\ res.code = "OK") =>
        /\ res.data =
              {a \in affirmations :
                  /\ a.userId = req.user
                  /\ Has(req.input, "collectionId")
                        => a.collectionId = req.input.collectionId
                  /\ TruthyFlag(req.input, "favoritesOnly") => a.isFavorite}
        /\ res.total = Cardinality(res.data)

\* C8. A store call that fails ends the request with the store's error (no
\* retry, no success after it) and, except in deleteCollection, leaves both
\* tables as they were; deleteCollection can only leave the collection in
\* place with the caller's affirmations of it removed.
StoreFailureWindow ==
    Served =>
        /\ res.code = "OK" =>
              \/ req.fault = "none"
              \/ req.fault = "check" /\ ~Truthy(req.input, "collectionId")
        /\ res.code # "OK" =>
              \/ TablesUnchanged
              \/ /\ req.op = "deleteCollection" /\ res.code = "STORE_ERROR"
                 /\ collections = pre.colls
                 /\ SelectCollection(collections, req.input.id, req.user) # {}
                 /\ affirmations =
                       {a \in pre.affs :
                           ~(a.collectionId = req.input.id /\ a.userId = req.user)}

\* The removal of the collection row failed after the cascade had removed
\* affirmations.
StoreFailureWindowWitness ==
    /\ req.op = "deleteCollection" /\ req.fault = "write"
    /\ res.code = "STORE_ERROR"
    /\ affirmations # pre.affs
    /\ SelectCollection(collections, req.input.id, req.user) # {}

----------------------------------------------------------------------------
\* Properties of requests in flight together

\* The next store call of slot s.
StoreCall(s) ==
    \/ updateCollectionSelect(s)
    \/ updateCollectionWrite(s)
    \/ deleteCollectionSelect(s)
    \/ deleteCollectionCascade(s)
    \/ deleteCollectionWrite(s)
    \/ createAffirmationCheck(s)
    \/ createAffirmationInsert(s)
    \/ updateAffirmationSelect(s)
    \/ updateAffirmationCheck(s)
    \/ updateAffirmationWrite(s)

\* The slots whose update op of row id has been written and supplied key k.
WritersOf(op, id, k) ==
    {s \in Slots :
        /\ loc[s].op = op /\ loc[s].input.id = id
        /\ loc[s].wroteAt > 0 /\ loc[s].code = "OK"
        /\ k \in DOMAIN loc[s].updates}

LastWriter(W) == CHOOSE s \in W : \A t \in W : loc[t].wroteAt <= loc[s].wroteAt

\* Every column of the stored row r holds what the last update that
\* supplied it wrote, or what r0 held when no update supplied it.
LastWritten(r, r0, op) ==
    \A k \in DOMAIN r :
        LET W == WritersOf(op, r.id, k)
        IN  r[k] = IF W = {} THEN r0[k] ELSE loc[LastWriter(W)].updates[k]

\* C9. Updates of the same row that run together are not coordinated: no
\* store call of a request in flight is ever blocked, an update is not
\* rejected because of another update, it writes once (no retry), and the
\* write that reaches the store later wins: the stored row holds, in every
\* field, the value of the last write that supplied the field.
LastWriteWins ==
    /\ \A s \in Slots :
          /\ pc[s] \notin {"idle", "done"} => ENABLED StoreCall(s)
          /\ loc[s].writes <= 1
          /\ ( /\ pc[s] = "done"
               /\ loc[s].op \in {"updateCollection", "updateAffirmation"}
               /\ \A t \in Slots : loc[t].op # "deleteCollection" )
             => loc[s].code = "OK"
    /\ \A r \in collections, r0 \in pre.colls :
          r.id = r0.id => LastWritten(r, r0, "updateCollection")
    /\ \A r \in affirmations, r0 \in pre.affs :
          r.id = r0.id => LastWritten(r, r0, "updateAffirmation")

\* Two updates of one affirmation both supplied text; t's write fell
\* between s's select and s's write; the row holds s's text, and t's
\* isFavorite, which s did not supply.
LastWriteWinsWitness ==
    \E s, t \in Slots :
        /\ s # t /\ pc[s] = "done" /\ pc[t] = "done"
        /\ loc[s].op = "updateAffirmation" /\ loc[t].op = "updateAffirmation"
        /\ loc[s].code = "OK" /\ loc[t].code = "OK"
        /\ loc[s].input.text # loc[t].input.text
        /\ Has(loc[t].input, "isFavorite") /\ ~Has(loc[s].input, "isFavorite")
        /\ loc[s].readAt <= loc[t].wroteAt /\ loc[t].wroteAt < loc[s].wroteAt
        /\ \E r \in affirmations :
              /\ r.id = loc[s].input.id
              /\ r.text = loc[s].input.text
              /\ r.isFavorite = loc[t].input.isFavorite

====
